---- MODULE Spec2Model ----
(***************************************************************************)
(* Ingestion, batch progress and sparse-index lifecycle of the RAG server. *)
(*                                                                         *)
(* One upload request carries NumFiles files.  The upload handler saves    *)
(* each supported file to a temp file and enqueues one Celery task for it, *)
(* then creates the batch record in Redis.  Every task runs in its own     *)
(* worker process; each Redis / Chroma / filesystem command is one step,   *)
(* so a progress write is a GET step followed by a SET step.               *)
(*                                                                         *)
(* The API process also answers duplicate checks, keeps the metadata of    *)
(* chat sessions and streams query answers as server-sent events.          *)
(*                                                                         *)
(* Library calls that the task model takes as one step are also modelled   *)
(* step by step on their own: add_documents with its per-chunk retry loop, *)
(* the rebuild of the cached sparse retriever next to querying threads,    *)
(* and the GET-then-SET updates of a session's metadata.                   *)
(***************************************************************************)
EXTENDS Integers, Sequences, FiniteSets, TLC

\* ---------------------------------------------------------------- bounds
NumFiles == 2          \* files in the upload request
MaxChunks == 2         \* chunks a file is split into (1..MaxChunks)
MaxFailures == 4       \* exceptions injected over one run
MaxIndexFailures == 1  \* the same, in runs with queries and deletions
MaxPriorDocs == 1      \* documents ingested by earlier uploads
MaxErrors == 1         \* exceptions raised in runs that vary the error text
MaxStored == 2         \* chunks in the store when duplicates are checked
MaxChecks == 2         \* entries of a duplicate-check request
MaxHashes == 2         \* distinct file contents
MaxNames == 2          \* distinct file names
MaxSessions == 2       \* chat sessions
MaxTokens == 2         \* tokens the model streams for one answer
MaxClock == 2          \* instants datetime.now() can return
MaxUploadErrors == 1   \* exceptions raised while the upload handler saves files
MaxNodes == 3          \* source nodes a response carries
MaxDocIds == 2         \* distinct document ids among the source nodes
MaxQueries == 2        \* query threads that build their retriever at once
MaxHandlers == 2       \* session-metadata calls in flight at once
MaxTitles == 1         \* titles a client can give a session

\* ------------------------------------------------------ program constants
max_retries == 3       \* retry_kwargs={'max_retries': 3}
PROGRESS_TTL == 3600   \* seconds, passed as ex= on every SET

Files == 1..NumFiles   \* the task of file i has task id i
API == 0               \* the process that serves HTTP requests
Procs == {API} \cup Files   \* task i runs in worker process i

VARIABLES
    supported,   \* supported[i]: extension of file i is in SUPPORTED_EXTENSIONS
    nchunks,     \* nchunks[i]: nodes chunk_document_from_file returns for file i
                 \* (0 for a rejected file, which is never chunked)
    failBudget,  \* exceptions that may still be raised in this run
    upc,         \* upload handler: index of the next file of the loop
    up,          \* upload handler: "loop", then "returned" (200) or "rejected" (400)
    pc,          \* pc[i]: position of task i
    retries,     \* retries[i]: self.request.retries of the current attempt
    snap,        \* snap[i]: batch_data a progress function has read and not yet written
    idx,         \* idx[i]: 1-based number of the chunk being inserted
    tmp,         \* tmp[i]: the temp source file of task i exists
    batch,       \* the Redis value of batch:{batch_id} (exists = FALSE: no key)
    chunks,      \* the Chroma collection: a set of chunk records
    storage,     \* document ids that have a directory under DOCUMENT_STORAGE_PATH
    bm25,        \* bm25[p]: the module-global _bm25_retriever of process p
    delPc,       \* DELETE /documents/{id} handler position
    delDoc,      \* document id the running DELETE is for
    delIds,      \* chunk ids the running DELETE has fetched
    deleted,     \* document ids for which DELETE has returned success
    incs,        \* incs[i]: increment_task_chunk_progress calls of task i that
                 \* found the task and returned (history of the run)
    exc,         \* exc[i]: str(e) of the exception task i is handling
    fresh,       \* refresh_bm25_retriever ran in the API process after the
                 \* last write to the collection (history of the run)
    metadatas,   \* duplicate check: results['metadatas'] of collection.get()
    file_checks, \* duplicate check: the request list of {filename, hash}
    result,      \* duplicate check: the dict returned, keyed by filename
    dupPc,       \* duplicate check: "idle", then "answered"
    metadata,    \* metadata[s]: the Redis value of session:metadata:{s}
    is_temporary,\* is_temporary[s]: the flag the client sends with session s
    queried,     \* sessions for which a query request was handled
    now,         \* the instant datetime.now() returns
    listed,      \* the sessions the last list_sessions call returned
    spc,         \* position of the query_rag_stream generator
    events,      \* the SSE events the generator has yielded
    source_nodes,\* streaming_response.source_nodes of the query being answered
    sources,     \* the list _extract_sources returned for it
    apc,         \* add_documents: "idle", "insert", "callback", "returned", "raised"
    total_nodes, \* add_documents: len(nodes)
    node_i,      \* add_documents: i of enumerate(nodes, 1)
    attempt,     \* _insert_node_with_retry: the loop variable of range(max_retries)
    tries,       \* index.insert_nodes calls made for the current chunk
    slept,       \* the delays time.sleep was called with for the current chunk
    last_error,  \* str(e) of the last exception index.insert_nodes raised
    inserted,    \* the chunk numbers index.insert_nodes stored, in call order
    callbacks,   \* the arguments of the progress_callback calls, in call order
    rfPc,        \* refresh_bm25_retriever running in a thread of the API process
    rfNodes,     \* the nodes its get_all_nodes call returned
    qPc,         \* qPc[q]: create_hybrid_retriever running in query thread q
    qNodes,      \* qNodes[q]: the nodes its lazy initialisation read
    qRetriever,  \* qRetriever[q]: the sparse retriever query q has in hand
    preRefresh,  \* the API process's _bm25_retriever before these threads ran
    hpc,         \* hpc[h]: session-metadata call of request h: "idle", "read", "returned"
    hop,         \* hop[h]: the function it runs, its session and its title argument
    hread        \* hread[h]: the record its GET returned

ingestVars == <<supported, nchunks, failBudget, upc, up, pc, retries, snap, idx,
                tmp, batch, chunks, storage, bm25, delPc, delDoc, delIds,
                deleted, incs, exc, fresh>>
dupVars == <<metadatas, file_checks, result, dupPc>>
sessVars == <<metadata, is_temporary, queried, now, listed>>
streamVars == <<spc, events, source_nodes, sources>>
apiVars == <<dupVars, sessVars, streamVars>>

addVars == <<apc, total_nodes, node_i, attempt, tries, slept, last_error,
             inserted, callbacks>>
cacheVars == <<rfPc, rfNodes, qPc, qNodes, qRetriever, preRefresh>>
handlerVars == <<hpc, hop, hread>>
concVars == <<cacheVars, handlerVars>>
vars == <<ingestVars, apiVars, addVars, concVars>>

\* ------------------------------------------------------------ progress.py
NoBatch ==
    [exists |-> FALSE, ttl |-> 0, total |-> 0, completed |-> 0,
     total_chunks |-> 0, completed_chunks |-> 0, tasks |-> << >>]

\* the data dict of a task: its "error" and "message" strings (<< >> for a
\* key that is absent); a string is a sequence of tokens
NoData == [error |-> << >>, message |-> << >>]

NewTask ==
    [status |-> "pending", data |-> NoData, total_chunks |-> 0,
     completed_chunks |-> 0]

\* create_batch with the SET issued without ex=PROGRESS_TTL
create_batch_without_ttl(task_ids) ==
    [exists |-> TRUE, ttl |-> 0, total |-> Cardinality(task_ids),
     completed |-> 0, total_chunks |-> 0, completed_chunks |-> 0,
     tasks |-> [t \in task_ids |-> NewTask]]

\* create_batch: the record written for the enqueued task ids
create_batch(task_ids) ==
    [exists |-> TRUE, ttl |-> PROGRESS_TTL, total |-> Cardinality(task_ids),
     completed |-> 0, total_chunks |-> 0, completed_chunks |-> 0,
     tasks |-> [t \in task_ids |-> NewTask]]

\* update_task_progress, between its GET and its SET
update_task_progress(bd, t, status, data) ==
    [bd EXCEPT !.tasks[t].status = status,
               !.tasks[t].data = data,
               !.completed = IF status \in {"completed", "error"}
                             THEN @ + 1 ELSE @,
               !.ttl = PROGRESS_TTL]

\* set_task_total_chunks, between its GET and its SET
set_task_total_chunks(bd, t, n) ==
    [bd EXCEPT !.tasks[t].total_chunks = n,
               !.total_chunks = @ + n,
               !.ttl = PROGRESS_TTL]

\* increment_task_chunk_progress without the batch-level counter update
increment_task_only(bd, t) ==
    [bd EXCEPT !.tasks[t].completed_chunks = @ + 1,
               !.ttl = PROGRESS_TTL]

\* increment_task_chunk_progress, between its GET and its SET
increment_task_chunk_progress(bd, t) ==
    [bd EXCEPT !.tasks[t].completed_chunks = @ + 1,
               !.completed_chunks = @ + 1,
               !.ttl = PROGRESS_TTL]

\* the early returns shared by the three writers
Found(bd, t) == bd.exists /\ t \in DOMAIN bd.tasks

\* ------------------------------------------------------------- chroma.py
\* the document id uuid4() yields for attempt r of task t (fresh per attempt)
DocId(t, r) == t * 10 + r

\* node stamping: node.id_ = f"{doc_id}-chunk-{i}", chunk_index = i
\* node.id_ = f"{doc_id}-chunk-{i}"
node_id_without_index(doc, i) == <<ToString(doc), "-chunk-">>
node_id(doc, i) == <<ToString(doc), "-chunk-", ToString(i)>>

Node(doc, i) ==
    [chunk_id |-> node_id(doc, i), document_id |-> doc, chunk_index |-> i]

\* index.insert_nodes([node]): upsert keyed on the chunk id
insert_nodes(coll, node) ==
    {c \in coll : c.chunk_id # node.chunk_id} \cup {node}

\* ------------------------------------------------------ hybrid_retriever.py
NoRetriever == [built |-> FALSE, nodes |-> {}]

\* initialize_bm25_retriever without the "if not nodes" return
initialize_without_empty_check(nodes) == [built |-> TRUE, nodes |-> nodes]

\* initialize_bm25_retriever: the value it returns for the nodes it read
initialize_bm25_retriever(nodes) ==
    IF nodes = {} THEN NoRetriever ELSE [built |-> TRUE, nodes |-> nodes]

Queries == 1..MaxQueries   \* query threads of the API process

\* -------------------------------------------------------------- session.py
Sessions == 1..MaxSessions
Handlers == 1..MaxHandlers
Titles == 1..MaxTitles
NewChat == 0               \* title: str = "New Chat"
NoCall == [op |-> "none", session_id |-> 0, title |-> NewChat]

\* no key session:metadata:{s}
NoMetadata ==
    [exists |-> FALSE, title |-> NewChat, updated_at |-> 0, is_archived |-> FALSE,
     is_temporary |-> FALSE]

\* create_session_metadata: the store afterwards (nothing is written for a
\* temporary session)
create_session_metadata(md, s, temporary, t) ==
    IF ~temporary
    THEN [md EXCEPT ![s] = [exists |-> TRUE, title |-> NewChat, updated_at |-> t,
                            is_archived |-> FALSE, is_temporary |-> temporary]]
    ELSE md

\* touch_session: lazy creation with the default is_temporary=False when
\* there is no metadata, else a new updated_at
touch_session(md, s, t) ==
    IF ~md[s].exists
    THEN create_session_metadata(md, s, FALSE, t)
    ELSE [md EXCEPT ![s].updated_at = t]

\* list_sessions(include_archived=False): the sessions it returns
list_sessions(md) ==
    {s \in Sessions :
        md[s].exists /\ ~md[s].is_temporary /\ ~md[s].is_archived}

\* --------------------------------------------------------------- initial
\* documents of earlier uploads: ids below those of this run's attempts
PriorDocs == 1..MaxPriorDocs

\* the chunks a finished ingestion of the documents D left in the store
PriorStore(D) == {Node(d, i) : d \in D, i \in 0..(MaxChunks - 1)}

\* the ingestion side: upload handler, workers, stores and caches
\* add_documents has not been called
AddIdle ==
    /\ apc = "idle"
    /\ total_nodes = 0
    /\ node_i = 0
    /\ attempt = 0
    /\ tries = 0
    /\ slept = << >>
    /\ last_error = << >>
    /\ inserted = << >>
    /\ callbacks = << >>

\* no thread of the API process is building a sparse retriever
CacheIdle ==
    /\ rfPc = "idle"
    /\ rfNodes = {}
    /\ qPc = [q \in Queries |-> "idle"]
    /\ qNodes = [q \in Queries |-> {}]
    /\ qRetriever = [q \in Queries |-> NoRetriever]

\* no session-metadata call is in flight
HandlersIdle ==
    /\ hpc = [h \in Handlers |-> "idle"]
    /\ hop = [h \in Handlers |-> NoCall]
    /\ hread = [h \in Handlers |-> NoMetadata]

\* caches: the values the processes' _bm25_retriever can start with
IngestInitCached(sup, budgets, priors, caches) ==
    /\ AddIdle
    /\ CacheIdle
    /\ HandlersIdle
    /\ supported \in sup
    /\ nchunks \in {n \in [Files -> 0..MaxChunks] :
                      \A i \in Files : (n[i] = 0) <=> ~supported[i]}
    /\ failBudget \in budgets
    /\ upc = 1
    /\ up = "loop"
    /\ pc = [i \in Files |-> "none"]
    /\ retries = [i \in Files |-> 0]
    /\ snap = [i \in Files |-> NoBatch]
    /\ idx = [i \in Files |-> 0]
    /\ tmp = [i \in Files |-> FALSE]
    /\ batch = NoBatch
    /\ storage \in priors
    /\ chunks = PriorStore(storage)
    /\ bm25 \in caches
    /\ preRefresh = bm25[API]
    /\ delPc = "idle"
    /\ delDoc = 0
    /\ delIds = {}
    /\ deleted = {}
    /\ incs = [i \in Files |-> 0]
    /\ exc = [i \in Files |-> << >>]
    /\ fresh = FALSE

IngestInit(sup, budgets, priors) ==
    IngestInitCached(sup, budgets, priors, {[p \in Procs |-> NoRetriever]})

\* no duplicate check requested
DupIdle ==
    /\ metadatas = << >>
    /\ file_checks = << >>
    /\ result = << >>
    /\ dupPc = "idle"

\* no session known, no stream open
ChatIdle ==
    /\ metadata = [s \in Sessions |-> NoMetadata]
    /\ is_temporary = [s \in Sessions |-> FALSE]
    /\ queried = {}
    /\ now = 0
    /\ listed = {}
    /\ spc = "idle"
    /\ events = << >>
    /\ source_nodes = << >>
    /\ sources = << >>

\* no API request besides the upload in progress
ApiIdle == DupIdle /\ ChatIdle

InitWith(sup, budgets, priors) ==
    /\ IngestInit(sup, budgets, priors)
    /\ ApiIdle

\* ------------------------------------------------------- upload_documents
\* the files whose task was enqueued (task_infos.append after apply_async)
task_infos_unchecked == {i \in Files : i < upc}
task_infos == {i \in Files : i < upc /\ pc[i] # "none"}

\* one iteration of the loop over the files
UploadFile ==
    /\ upc \in Files
    /\ IF supported[upc]
       THEN /\ tmp' = [tmp EXCEPT ![upc] = TRUE]
            /\ pc' = [pc EXCEPT ![upc] = "queued"]
       ELSE UNCHANGED <<tmp, pc>>
    /\ upc' = upc + 1
    /\ UNCHANGED <<supported, nchunks, failBudget, up, retries, snap, idx, batch,
                   chunks, storage, bm25, delPc, delDoc, delIds, deleted, incs, exc,
                   fresh, apiVars, addVars, concVars>>

\* one iteration in which saving or enqueueing raises: the except clause
\* records the error and no task exists for the file; the temp file is left
\* behind when the exception came after NamedTemporaryFile(delete=False)
UploadRaise ==
    /\ upc \in Files
    /\ supported[upc]
    /\ failBudget > 0
    /\ failBudget' = failBudget - 1
    /\ \E left \in BOOLEAN : tmp' = [tmp EXCEPT ![upc] = left]
    /\ upc' = upc + 1
    /\ UNCHANGED <<supported, nchunks, up, pc, retries, snap, idx, batch,
                   chunks, storage, bm25, delPc, delDoc, delIds, deleted, incs, exc,
                   fresh, apiVars, addVars, concVars>>

\* after the loop: 400 when nothing was enqueued, else create_batch
UploadFinish ==
    /\ upc = NumFiles + 1
    /\ up = "loop"
    /\ IF task_infos = {}
       THEN /\ up' = "rejected"
            /\ UNCHANGED batch
       ELSE /\ up' = "returned"
            /\ batch' = create_batch(task_infos)
    /\ UNCHANGED <<supported, nchunks, failBudget, upc, pc, retries, snap, idx, tmp,
                   chunks, storage, bm25, delPc, delDoc, delIds, deleted, incs, exc,
                   fresh, apiVars, addVars, concVars>>

\* ------------------------------------------------------- error strings
\* the temp file of task t: NamedTemporaryFile(suffix=file_ext, dir="/tmp/shared")
file_path(t) == <<"/tmp/shared/", "tmp", ToString(t), ".pdf">>

\* the name the file was uploaded under
filename(t) == <<"doc", ToString(t), ".pdf">>

\* old in s
Contains(s, old) ==
    \E i \in 1..(Len(s) - Len(old) + 1) : SubSeq(s, i, i + Len(old) - 1) = old

\* s.replace(old, new): every non-overlapping occurrence, from the left
RECURSIVE str_replace(_, _, _)
str_replace(s, old, new) ==
    IF Len(s) < Len(old) THEN s
    ELSE IF SubSeq(s, 1, Len(old)) = old
         THEN new \o str_replace(SubSeq(s, Len(old) + 1, Len(s)), old, new)
         ELSE <<Head(s)>> \o str_replace(Tail(s), old, new)

\* str(e) of what the libraries under the pipeline raise: text without the
\* path, with the path, with the path twice, with its directory or its
\* base name only
LibraryErrors(t) ==
    { <<"error">>,
      <<"[Errno 13] Permission denied: '">> \o file_path(t) \o <<"'">>,
      file_path(t) \o <<" -> ">> \o file_path(t),
      <<"/tmp/shared/", " is not writable">>,
      <<"cannot convert ", "tmp", ToString(t), ".pdf">> }

\* str(e) of the exceptions chunk_document_from_file raises
ChunkErrors(t) ==
    { <<"File does not exist: ">> \o file_path(t),
      <<"Unsupported file type: ", ".pdf">>,
      <<"File not found during processing: ">> \o file_path(t),
      <<"Could not load document: ">> \o file_path(t) }
    \cup { <<"Failed to read file ">> \o file_path(t) \o <<": ">> \o m :
              m \in LibraryErrors(t) }
    \cup { <<"Failed to process document ">> \o file_path(t) \o <<": ">> \o m :
              m \in LibraryErrors(t) }
    \cup { <<"Failed to parse document into chunks: ">> \o m :
              m \in LibraryErrors(t) }

\* str(e) of the exception add_documents raises for a chunk
EmbedErrors(t) ==
    { <<"Failed to embed chunk: ">> \o m : m \in LibraryErrors(t) }

\* a data dict with a message only
Message(m) == [error |-> << >>, message |-> m]

\* the except clause with the path left in the message
raw_error(e, path, name) == e

\* user_friendly_error = str(e).replace(file_path, filename)
user_friendly_error(e, path, name) == str_replace(e, path, name)

\* the data dict the except clause writes
ErrorData(t, e) ==
    LET msg == user_friendly_error(e, file_path(t), filename(t))
    IN [error |-> msg, message |-> <<"Error: ">> \o msg]

\* ------------------------------------------------- add_documents
insert_max_retries == 3   \* _insert_node_with_retry(index, node, max_retries=3, ...)
base_delay == 2           \* base_delay=2.0, in seconds

\* str(e) of what index.insert_nodes raises (embedding call or Chroma upsert)
InsertErrors ==
    { <<"EOF">>,
      <<"Connection", " ", "refused">>,
      <<"Read", " ", "timeout">>,
      <<"Service", " ", "Unavailable">>,
      <<"Gateway", " ", "Timeout">>,
      <<"Invalid", " ", "dimension">>,
      <<"model", " ", "not", " ", "found">> }

\* str.lower()
LowerWord(w) ==
    CASE w = "EOF" -> "eof"
      [] w = "Connection" -> "connection"
      [] w = "Read" -> "read"
      [] w = "Service" -> "service"
      [] w = "Unavailable" -> "unavailable"
      [] w = "Invalid" -> "invalid"
      [] w = "Gateway" -> "gateway"
      [] w = "Timeout" -> "timeout"
      [] OTHER -> w
lower(s) == [k \in 1..Len(s) |-> LowerWord(s[k])]

ConnectionTerms == {"eof", "connection", "timeout", "refused", "unavailable"}

\* any(term in error_msg for term in [...]) on error_msg = str(e).lower()
every_error_is_connection_error(e) == TRUE
is_connection_error(e) == \E term \in ConnectionTerms : Contains(lower(e), <<term>>)

\* delay = base_delay * (2 ** attempt)
delay(a) == base_delay * (2 ^ a)

\* if progress_callback: progress_callback(i, total_nodes)
progress_callback_twice(calls, i, n) == Append(Append(calls, <<i, n>>), <<i, n>>)
progress_callback(calls, i, n) == Append(calls, <<i, n>>)

\* add_documents(index, nodes, progress_callback) is called with n nodes; with
\* no node the loop is skipped and total_duration / len(nodes) raises
AddStart(n) ==
    /\ apc = "idle"
    /\ total_nodes' = n
    /\ IF n = 0
       THEN apc' = "raised" /\ UNCHANGED node_i
       ELSE apc' = "insert" /\ node_i' = 1
    /\ UNCHANGED <<ingestVars, apiVars, concVars, attempt, tries, slept, last_error,
                   inserted, callbacks>>

\* one iteration of the retry loop for chunk node_i: index.insert_nodes([node])
\* returns, or raises e; a connection error before the last attempt is slept
\* on, any other exception leaves add_documents
InsertAttempt ==
    /\ apc = "insert"
    /\ attempt < insert_max_retries
    /\ tries' = tries + 1
    /\ \/ /\ inserted' = Append(inserted, node_i)
          /\ apc' = "callback"
          /\ UNCHANGED <<attempt, slept, last_error>>
       \/ \E e \in InsertErrors :
             /\ last_error' = e
             /\ IF is_connection_error(e) /\ attempt < insert_max_retries - 1
                THEN /\ slept' = Append(slept, delay(attempt))
                     /\ attempt' = attempt + 1
                     /\ UNCHANGED apc
                ELSE /\ apc' = "raised"
                     /\ UNCHANGED <<attempt, slept>>
             /\ UNCHANGED inserted
    /\ UNCHANGED <<ingestVars, apiVars, concVars, total_nodes, node_i, callbacks>>

\* after the insert of chunk node_i returned: the callback, then the next
\* chunk or the end of the loop
AddCallback ==
    /\ apc = "callback"
    /\ callbacks' = progress_callback(callbacks, node_i, total_nodes)
    /\ IF node_i = total_nodes
       THEN /\ apc' = "returned"
            /\ UNCHANGED <<node_i, attempt, tries, slept, last_error>>
       ELSE /\ apc' = "insert"
            /\ node_i' = node_i + 1
            /\ attempt' = 0
            /\ tries' = 0
            /\ slept' = << >>
            /\ last_error' = << >>
    /\ UNCHANGED <<ingestVars, apiVars, concVars, total_nodes, inserted>>

\* ------------------------------------------------- process_document_task
\* positions at which a progress function is about to GET the batch record
GetPcs == {"queued", "st_get", "p2_get", "inc_get", "p3_get", "done_get", "err_get"}

\* position of the SET that follows a GET which found the task
SetOf(p) ==
    CASE p = "queued"   -> "p1_set"
      [] p = "st_get"   -> "st_set"
      [] p = "p2_get"   -> "p2_set"
      [] p = "inc_get"  -> "inc_set"
      [] p = "p3_get"   -> "p3_set"
      [] p = "done_get" -> "done_set"
      [] p = "err_get"  -> "err_set"

SetPcs == {"p1_set", "st_set", "p2_set", "inc_set", "p3_set", "done_set", "err_set"}

\* position after the progress function at p (GET or SET position) returned
AfterOp(t, p) ==
    CASE p \in {"queued", "p1_set"}     -> "st_get"
      [] p \in {"st_get", "st_set"}     -> "p2_get"
      [] p \in {"p2_get", "p2_set"}     -> "insert"
      [] p \in {"inc_get", "inc_set"}   -> "p3_get"
      [] p \in {"p3_get", "p3_set"}     ->
             IF idx[t] < nchunks[t] THEN "insert" ELSE "refresh"
      [] p \in {"done_get", "done_set"} -> "fin_ok"
      [] p \in {"err_get", "err_set"}   -> "fin_err"

\* for i, node in enumerate(nodes, 1): the loop variable once the progress
\* function at p returned (the loop starts after the second status write)
NextIdx(t, p) ==
    CASE p \in {"p2_get", "p2_set"} -> [idx EXCEPT ![t] = 1]
      [] p \in {"p3_get", "p3_set"} /\ idx[t] < nchunks[t] -> [idx EXCEPT ![t] = @ + 1]
      [] OTHER -> idx

\* the record the progress function at SET position p writes
Written(t, p) ==
    CASE p = "p1_set"   ->
             update_task_progress(snap[t], t, "processing",
                                  Message(<<"Processing document...">>))
      [] p = "st_set"   -> set_task_total_chunks(snap[t], t, nchunks[t])
      [] p = "p2_set"   ->
             update_task_progress(snap[t], t, "processing",
                                  Message(<<"Created chunks, starting embedding...">>))
      [] p = "inc_set"  -> increment_task_chunk_progress(snap[t], t)
      [] p = "p3_set"   ->
             update_task_progress(snap[t], t, "processing",
                                  Message(<<"Embedding chunk...">>))
      [] p = "done_set" ->
             update_task_progress(snap[t], t, "completed",
                                  Message(<<"Successfully indexed">>))
      [] p = "err_set"  ->
             update_task_progress(snap[t], t, "error", ErrorData(t, exc[t]))

\* client.get(batch_key) and the two early returns
ProgressGet(t) ==
    /\ pc[t] \in GetPcs
    /\ IF Found(batch, t)
       THEN /\ snap' = [snap EXCEPT ![t] = batch]
            /\ pc' = [pc EXCEPT ![t] = SetOf(pc[t])]
       ELSE /\ pc' = [pc EXCEPT ![t] = AfterOp(t, pc[t])]
            /\ UNCHANGED snap
    /\ idx' = IF Found(batch, t) THEN idx ELSE NextIdx(t, pc[t])
    /\ UNCHANGED <<supported, nchunks, failBudget, upc, up, retries, tmp, batch,
                   chunks, storage, bm25, delPc, delDoc, delIds, deleted, incs, exc,
                   fresh, apiVars, addVars, concVars>>

\* client.set(batch_key, json.dumps(batch_data), ex=PROGRESS_TTL)
ProgressSet(t) ==
    /\ pc[t] \in SetPcs
    /\ batch' = Written(t, pc[t])
    /\ snap' = [snap EXCEPT ![t] = NoBatch]
    /\ pc' = [pc EXCEPT ![t] = AfterOp(t, pc[t])]
    /\ idx' = NextIdx(t, pc[t])
    /\ incs' = IF pc[t] = "inc_set" THEN [incs EXCEPT ![t] = @ + 1] ELSE incs
    /\ UNCHANGED <<supported, nchunks, failBudget, upc, up, retries, tmp,
                   chunks, storage, bm25, delPc, delDoc, delIds, deleted, exc,
                   fresh, apiVars, addVars, concVars>>

\* chunk_document_from_file or the insert of a chunk raises an exception
\* whose str() is e; the except clause catches it
Raise(t, e) ==
    /\ pc[t] \in {"st_get", "insert"}
    /\ failBudget > 0
    /\ failBudget' = failBudget - 1
    /\ exc' = [exc EXCEPT ![t] = e]
    /\ pc' = [pc EXCEPT ![t] = "err_get"]
    /\ UNCHANGED <<supported, nchunks, upc, up, retries, snap, idx, tmp, batch,
                   chunks, storage, bm25, delPc, delDoc, delIds, deleted, incs,
                   fresh, apiVars, addVars, concVars>>

\* the file has gone, or the embedding of a chunk fails
Fail(t) ==
    Raise(t, IF pc[t] = "st_get"
             THEN <<"File does not exist: ">> \o file_path(t)
             ELSE <<"Failed to embed chunk: ", "error">>)

\* any of the exceptions the step at pc[t] can raise
FailAny(t) ==
    \E e \in (IF pc[t] = "st_get" THEN ChunkErrors(t) ELSE EmbedErrors(t)) :
        Raise(t, e)

\* add_documents: _insert_node_with_retry of chunk idx[t] succeeds
Insert(t) ==
    /\ pc[t] = "insert"
    /\ chunks' = insert_nodes(chunks, Node(DocId(t, retries[t]), idx[t] - 1))
    /\ pc' = [pc EXCEPT ![t] = "inc_get"]
    /\ idx' = idx
    /\ fresh' = FALSE
    /\ UNCHANGED <<supported, nchunks, failBudget, upc, up, retries, snap, tmp,
                   batch, storage, bm25, delPc, delDoc, delIds, deleted, incs, exc,
                   apiVars, addVars, concVars>>

\* refresh_bm25_retriever(index) in the worker process of the task
refresh_bm25_retriever(p) ==
    bm25' = [bm25 EXCEPT ![p] = initialize_bm25_retriever(chunks)]

Refresh(t) ==
    /\ pc[t] = "refresh"
    /\ refresh_bm25_retriever(t)
    /\ pc' = [pc EXCEPT ![t] = "persist"]
    /\ UNCHANGED <<supported, nchunks, failBudget, upc, up, retries, snap, idx,
                   tmp, batch, chunks, storage, delPc, delDoc, delIds, deleted, incs, exc,
                   fresh, apiVars, addVars, concVars>>

\* copy of the source file to DOCUMENT_STORAGE_PATH / doc_id
Persist(t) ==
    /\ pc[t] = "persist"
    /\ storage' = storage \cup {DocId(t, retries[t])}
    /\ pc' = [pc EXCEPT ![t] = "done_get"]
    /\ UNCHANGED <<supported, nchunks, failBudget, upc, up, retries, snap, idx,
                   tmp, batch, chunks, bm25, delPc, delDoc, delIds, deleted, incs, exc,
                   fresh, apiVars, addVars, concVars>>

\* the finally clause: will_retry = self.request.retries < self.max_retries
will_retry(t) == retries[t] < max_retries

\* a queue that retries without a limit
autoretry_unlimited(r) == TRUE

\* autoretry_for=(Exception,), retry_kwargs={'max_retries': 3}: the queue
\* re-runs an attempt that raised while its retries counter r is below the
\* limit
autoretry_for(r) == r < max_retries

\* finally clause, then the autoretry_for decision of the queue
Finally(t) ==
    /\ pc[t] \in {"fin_ok", "fin_err"}
    /\ tmp' = IF will_retry(t) THEN tmp ELSE [tmp EXCEPT ![t] = FALSE]
    /\ IF pc[t] = "fin_ok"
       THEN /\ pc' = [pc EXCEPT ![t] = "success"]
            /\ UNCHANGED retries
       ELSE IF autoretry_for(retries[t])
            THEN /\ pc' = [pc EXCEPT ![t] = "queued"]
                 /\ retries' = [retries EXCEPT ![t] = @ + 1]
            ELSE /\ pc' = [pc EXCEPT ![t] = "failed"]
                 /\ UNCHANGED retries
    /\ exc' = [exc EXCEPT ![t] = << >>]
    /\ UNCHANGED <<supported, nchunks, failBudget, upc, up, snap, idx, batch,
                   chunks, storage, bm25, delPc, delDoc, delIds, deleted, incs,
                   fresh, apiVars, addVars, concVars>>

\* the batch key reaches its TTL
Expire ==
    /\ batch.exists
    /\ batch.ttl > 0
    /\ batch' = NoBatch
    /\ UNCHANGED <<supported, nchunks, failBudget, upc, up, pc, retries, snap,
                   idx, tmp, chunks, storage, bm25, delPc, delDoc, delIds, deleted, incs, exc,
                   fresh, apiVars, addVars, concVars>>

\* --------------------------------------------------------- API handlers
\* get_batch_progress: what a status poll reads
get_batch_progress == batch

\* create_hybrid_retriever in the API process: the cached retriever is used
\* when there is one, and built from the store only when the cache is None
create_hybrid_retriever(cached, nodes) ==
    IF cached.built THEN cached ELSE initialize_bm25_retriever(nodes)

\* POST /query: the sparse retriever the query consults stays cached
Query ==
    /\ bm25' = [bm25 EXCEPT ![API] = create_hybrid_retriever(bm25[API], chunks)]
    /\ UNCHANGED <<supported, nchunks, failBudget, upc, up, pc, retries, snap,
                   idx, tmp, batch, chunks, storage, delPc, delDoc, delIds, deleted, incs, exc,
                   fresh, apiVars, addVars, concVars>>

\* refresh_bm25_retriever(index) called in the API process
RefreshApi ==
    /\ refresh_bm25_retriever(API)
    /\ fresh' = TRUE
    /\ UNCHANGED <<supported, nchunks, failBudget, upc, up, pc, retries, snap,
                   idx, tmp, batch, chunks, storage, delPc, delDoc, delIds,
                   deleted, incs, exc, apiVars, addVars, concVars>>

\* initialize_bm25_retriever leaves the global alone while it reads the store
\* and builds the new retriever
cleared_while_building(old) == NoRetriever
cache_while_building(old) == old

\* refresh_bm25_retriever in a thread of the API process. First step:
\* initialize_bm25_retriever reads the store (get_all_nodes)
RefreshNodes ==
    /\ rfPc = "idle"
    /\ rfNodes' = chunks
    /\ bm25' = [bm25 EXCEPT ![API] = cache_while_building(bm25[API])]
    /\ rfPc' = "built"
    /\ UNCHANGED <<supported, nchunks, failBudget, upc, up, pc, retries, snap,
                   idx, tmp, batch, chunks, storage, delPc, delDoc, delIds,
                   deleted, incs, exc, fresh, apiVars, addVars, qPc, qNodes,
                   qRetriever, preRefresh, handlerVars>>

\* initialize_bm25_retriever returns None for an empty store, else binds the
\* global to the retriever it built and returns it
RefreshInit ==
    /\ rfPc = "built"
    /\ IF rfNodes = {}
       THEN UNCHANGED bm25
       ELSE bm25' = [bm25 EXCEPT ![API] = initialize_bm25_retriever(rfNodes)]
    /\ rfPc' = "returned"
    /\ UNCHANGED <<supported, nchunks, failBudget, upc, up, pc, retries, snap,
                   idx, tmp, batch, chunks, storage, delPc, delDoc, delIds,
                   deleted, incs, exc, fresh, apiVars, addVars, rfNodes, qPc,
                   qNodes, qRetriever, preRefresh, handlerVars>>

\* refresh_bm25_retriever binds the global to the value returned
RefreshAssign ==
    /\ rfPc = "returned"
    /\ bm25' = [bm25 EXCEPT ![API] = initialize_bm25_retriever(rfNodes)]
    /\ rfPc' = "done"
    /\ fresh' = TRUE
    /\ UNCHANGED <<supported, nchunks, failBudget, upc, up, pc, retries, snap,
                   idx, tmp, batch, chunks, storage, delPc, delDoc, delIds,
                   deleted, incs, exc, apiVars, addVars, rfNodes, qPc, qNodes,
                   qRetriever, preRefresh, handlerVars>>

\* create_hybrid_retriever in query thread q: get_bm25_retriever()
QueryRead(q) ==
    /\ qPc[q] = "idle"
    /\ qRetriever' = [qRetriever EXCEPT ![q] = bm25[API]]
    /\ qPc' = [qPc EXCEPT ![q] = IF bm25[API].built THEN "done" ELSE "init"]
    /\ UNCHANGED <<ingestVars, apiVars, addVars, rfPc, rfNodes, qNodes,
                   preRefresh, handlerVars>>

\* "if bm25_retriever is None": initialize_bm25_retriever reads the store
QueryNodes(q) ==
    /\ qPc[q] = "init"
    /\ qNodes' = [qNodes EXCEPT ![q] = chunks]
    /\ qPc' = [qPc EXCEPT ![q] = "built"]
    /\ UNCHANGED <<ingestVars, apiVars, addVars, rfPc, rfNodes, qRetriever,
                   preRefresh, handlerVars>>

\* ... and returns None, or binds the global and returns the retriever
QueryInit(q) ==
    /\ qPc[q] = "built"
    /\ qRetriever' = [qRetriever EXCEPT ![q] = initialize_bm25_retriever(qNodes[q])]
    /\ IF qNodes[q] = {}
       THEN UNCHANGED bm25
       ELSE bm25' = [bm25 EXCEPT ![API] = initialize_bm25_retriever(qNodes[q])]
    /\ qPc' = [qPc EXCEPT ![q] = "done"]
    /\ UNCHANGED <<supported, nchunks, failBudget, upc, up, pc, retries, snap,
                   idx, tmp, batch, chunks, storage, delPc, delDoc, delIds,
                   deleted, incs, exc, fresh, apiVars, addVars, rfPc, rfNodes,
                   qNodes, preRefresh, handlerVars>>

\* documents GET /documents lists: grouped by metadata document_id
list_documents == {c.document_id : c \in chunks}

\* delete_document, first command: collection.get(where={"document_id": id})
DeleteGet(d) ==
    /\ delPc = "idle"
    /\ delDoc' = d
    /\ delIds' = {c.chunk_id : c \in {x \in chunks : x.document_id = d}}
    /\ delPc' = "got"
    /\ UNCHANGED <<supported, nchunks, failBudget, upc, up, pc, retries, snap,
                   idx, tmp, batch, chunks, storage, bm25, deleted, incs, exc,
                   fresh, apiVars, addVars, concVars>>

\* what delete_document_by_id leaves of the store and of the original files
delete_document(coll, ids) == {c \in coll : c.chunk_id \notin ids}

delete_document_by_id_storage(dirs, d) == dirs

\* delete_document, second command: collection.delete(ids=...), then the
\* handler answers {"status": "success"}
DeleteDel ==
    /\ delPc = "got"
    /\ chunks' = delete_document(chunks, delIds)
    /\ storage' = delete_document_by_id_storage(storage, delDoc)
    /\ deleted' = deleted \cup {delDoc}
    /\ delPc' = "idle"
    /\ delIds' = {}
    /\ fresh' = FALSE
    /\ UNCHANGED <<supported, nchunks, failBudget, upc, up, pc, retries, snap,
                   idx, tmp, batch, bm25, delDoc, incs, exc,
                   apiVars, addVars, concVars>>

Worker(t) ==
    \/ ProgressGet(t)
    \/ ProgressSet(t)
    \/ Fail(t)
    \/ Insert(t)
    \/ Refresh(t)
    \/ Persist(t)
    \/ Finally(t)

\* ------------------------------------------------- check_documents_exist
Hashes == 1..MaxHashes     \* sha256 digests of file contents
NoHash == 0                \* a chunk whose metadata has no (or an empty) file_hash
Names == 1..MaxNames       \* file names
StoredDocs == 1..MaxStored \* document ids carried by stored chunks

\* sequences over S of length at most n
SeqUpTo(S, n) == UNION {[1..k -> S] : k \in 0..n}

\* hash_to_doc: for every truthy file_hash in the store, the document id of
\* the first chunk that carries it
hash_to_doc(metas) ==
    [h \in {metas[i].file_hash : i \in DOMAIN metas} \ {NoHash} |->
        LET first == CHOOSE i \in DOMAIN metas :
                        /\ metas[i].file_hash = h
                        /\ \A j \in 1..(i - 1) : metas[j].file_hash # h
        IN metas[first].document_id]

\* result[filename] = ...: a dict assignment
SetItem(d, k, v) == [x \in DOMAIN d \cup {k} |-> IF x = k THEN v ELSE d[x]]

\* the loop over file_checks, from the dict res built so far
RECURSIVE check_each(_, _, _)
check_each(h2d, fcs, res) ==
    IF fcs = << >> THEN res
    ELSE LET fc == Head(fcs)
             entry == IF fc.hash \in DOMAIN h2d
                      THEN [exists |-> TRUE, document_id |-> h2d[fc.hash]]
                      ELSE [exists |-> FALSE]
         IN check_each(h2d, Tail(fcs), SetItem(res, fc.filename, entry))

check_documents_exist(metas, fcs) == check_each(hash_to_doc(metas), fcs, << >>)

\* one duplicate check of the request against the store
CheckDuplicates ==
    /\ dupPc = "idle"
    /\ result' = check_documents_exist(metadatas, file_checks)
    /\ dupPc' = "answered"
    /\ UNCHANGED <<ingestVars, addVars, concVars, metadatas, file_checks, sessVars, streamVars>>

\* the next request arrives
CheckAgain ==
    /\ dupPc = "answered"
    /\ file_checks' \in SeqUpTo([filename : Names, hash : Hashes], MaxChecks)
    /\ result' = << >>
    /\ dupPc' = "idle"
    /\ UNCHANGED <<ingestVars, addVars, concVars, metadatas, sessVars, streamVars>>

\* ------------------------------------------------------- query routes
\* the routes' "create session metadata if needed (non-temporary only)"
ensure_session(md, s, temporary, t) ==
    IF ~temporary /\ ~md[s].exists
    THEN create_session_metadata(md, s, FALSE, t)
    ELSE md

\* POST /query for session s
QueryPost(s) ==
    /\ metadata' = ensure_session(metadata, s, is_temporary[s], now)
    /\ queried' = queried \cup {s}
    /\ UNCHANGED <<ingestVars, addVars, concVars, dupVars, is_temporary, now, listed, streamVars>>

\* POST /query/stream for session s: the handler returns the generator
QueryStream(s) ==
    /\ spc \in {"idle", "closed"}
    /\ metadata' = ensure_session(metadata, s, is_temporary[s], now)
    /\ queried' = queried \cup {s}
    /\ spc' = "started"
    /\ events' = << >>
    /\ sources' = << >>
    /\ UNCHANGED <<ingestVars, addVars, concVars, dupVars, is_temporary, now, listed, source_nodes>>

\* ------------------------------------------------------- _extract_sources
NoDocId == 0                 \* metadata.get('document_id') is None or ''
DocIds == 0..MaxDocIds

\* a response's source nodes with the given document ids; the content of a
\* node is its rank in the response, so no two nodes are the same
SourceNodes(ids) == [i \in 1..Len(ids) |-> [document_id |-> ids[i], content |-> i]]

\* the dict built for one node
Source(node) == [document_id |-> node.document_id, full_text |-> node.content]

\* if doc_id: seen_docs.add(doc_id)
seen_docs_unchanged(seen_docs, doc_id) == seen_docs
seen_docs_add(seen_docs, doc_id) ==
    IF doc_id # NoDocId THEN seen_docs \cup {doc_id} ELSE seen_docs

RECURSIVE extract_each(_, _, _)
extract_each(nodes, seen_docs, out) ==
    IF nodes = << >> THEN out
    ELSE LET node == Head(nodes)
             doc_id == node.document_id
         IN  IF doc_id # NoDocId /\ doc_id \in seen_docs
             THEN extract_each(Tail(nodes), seen_docs, out)
             ELSE extract_each(Tail(nodes), seen_docs_add(seen_docs, doc_id),
                               Append(out, Source(node)))

_extract_sources(nodes) == extract_each(nodes, {}, << >>)

\* an except clause that yields nothing
on_exception_silent(ev) == ev

\* except Exception: yield "event: error"
on_exception(ev) == Append(ev, "error")

\* the chat engine is created and stream_chat returns
StreamStart ==
    /\ spc = "started"
    /\ spc' = "streaming"
    /\ UNCHANGED <<ingestVars, addVars, concVars, dupVars, sessVars, events, source_nodes, sources>>

\* for token in response_gen: yield "event: token"
StreamToken ==
    /\ spc = "streaming"
    /\ Len(events) < MaxTokens
    /\ events' = Append(events, "token")
    /\ UNCHANGED <<ingestVars, addVars, concVars, dupVars, sessVars, spc, source_nodes, sources>>

\* response_gen is exhausted: _extract_sources, yield "event: sources"
StreamSources ==
    /\ spc = "streaming"
    /\ sources' = _extract_sources(source_nodes)
    /\ events' = Append(events, "sources")
    /\ spc' = "sourced"
    /\ UNCHANGED <<ingestVars, addVars, concVars, dupVars, sessVars, source_nodes>>

\* yield "event: done", and the generator returns
StreamDone ==
    /\ spc = "sourced"
    /\ events' = Append(events, "done")
    /\ spc' = "closed"
    /\ UNCHANGED <<ingestVars, addVars, concVars, dupVars, sessVars, source_nodes, sources>>

\* an exception in the set-up, in response_gen or in _extract_sources
StreamError ==
    /\ spc \in {"started", "streaming"}
    /\ events' = on_exception(events)
    /\ spc' = "closed"
    /\ UNCHANGED <<ingestVars, addVars, concVars, dupVars, sessVars, source_nodes, sources>>

\* touch_session(s)
Touch(s) ==
    /\ metadata' = touch_session(metadata, s, now)
    /\ UNCHANGED <<ingestVars, addVars, concVars, dupVars, is_temporary, queried, now, listed,
                   streamVars>>

\* list_sessions()
List ==
    /\ listed' = list_sessions(metadata)
    /\ UNCHANGED <<ingestVars, addVars, concVars, dupVars, metadata, is_temporary, queried, now,
                   streamVars>>

\* the calls a client can make on the metadata of a session
Calls ==
    {[op |-> o, session_id |-> s, title |-> NewChat] :
        o \in {"touch", "archive", "unarchive"}, s \in Sessions}
    \cup {[op |-> "title", session_id |-> s, title |-> ti] :
             s \in Sessions, ti \in Titles}

\* the record a call writes back, from the record m its GET returned
written(call, m, t) ==
    CASE call.op = "touch" -> [m EXCEPT !.updated_at = t]
      [] call.op = "title" -> [m EXCEPT !.title = call.title, !.updated_at = t]
      [] call.op = "archive" -> [m EXCEPT !.is_archived = TRUE, !.updated_at = t]
      [] call.op = "unarchive" -> [m EXCEPT !.is_archived = FALSE, !.updated_at = t]

\* touch_session, update_session_title, archive_session or unarchive_session
\* in request h, first command: get_session_metadata (GET)
SessionGet(h, call) ==
    /\ hpc[h] = "idle"
    /\ hop' = [hop EXCEPT ![h] = call]
    /\ hread' = [hread EXCEPT ![h] = metadata[call.session_id]]
    /\ hpc' = [hpc EXCEPT ![h] = "read"]
    /\ UNCHANGED <<ingestVars, addVars, cacheVars, dupVars, sessVars, streamVars>>

\* ... second command: SET of the whole record; without a record, touch
\* creates one and the others return None
SessionSet(h) ==
    /\ hpc[h] = "read"
    /\ LET call == hop[h]
           s == call.session_id
       IN  IF hread[h].exists
           THEN metadata' = [metadata EXCEPT ![s] = written(call, hread[h], now)]
           ELSE IF call.op = "touch"
                THEN metadata' = create_session_metadata(metadata, s, FALSE, now)
                ELSE UNCHANGED metadata
    /\ hpc' = [hpc EXCEPT ![h] = "returned"]
    /\ UNCHANGED <<ingestVars, addVars, cacheVars, dupVars, is_temporary, queried,
                   now, listed, streamVars, hop, hread>>

\* time passes
Tick ==
    /\ now < MaxClock
    /\ now' = now + 1
    /\ UNCHANGED <<ingestVars, addVars, concVars, dupVars, metadata, is_temporary, queried, listed,
                   streamVars>>

\* ---------------------------------------------------------- specifications
Supported(sup) == {i \in Files : sup[i]}
OneTask == {sup \in [Files -> BOOLEAN] : Cardinality(Supported(sup)) <= 1}
TwoTasks == {sup \in [Files -> BOOLEAN] : Cardinality(Supported(sup)) = 2}

\* one upload whose files yield at most one task, with retried attempts
Init == InitWith(OneTask, {MaxFailures}, {{}})

Next ==
    \/ UploadFile
    \/ UploadFinish
    \/ \E t \in Files : Worker(t)
    \/ Expire

Spec == Init /\ [][Next]_vars

\* the same run under fair scheduling of the handler, the workers and the
\* expiry of the key
FairSpec ==
    /\ Spec
    /\ WF_vars(UploadFile \/ UploadFinish)
    /\ \A t \in Files : WF_vars(Worker(t))
    /\ WF_vars(Expire)

\* one upload that yields two tasks, run by two workers in parallel while
\* the key is alive
InitConc == InitWith(TwoTasks, {0}, {{}})

NextConc ==
    \/ UploadFile
    \/ UploadFinish
    \/ \E t \in Files :
          ProgressGet(t) \/ ProgressSet(t) \/ Insert(t) \/ Refresh(t)
             \/ Persist(t) \/ Finally(t)

SpecConc == InitConc /\ [][NextConc]_vars

\* the same two workers, for an upload whose first two files are the
\* supported ones
FirstTwo == {sup \in [Files -> BOOLEAN] : Supported(sup) = {1, 2}}

\* the state in which /upload has returned: temp files saved, both tasks
\* enqueued, the batch record created
Uploaded ==
    /\ supported \in FirstTwo
    /\ nchunks \in {n \in [Files -> 0..MaxChunks] :
                      \A i \in Files : (n[i] = 0) <=> ~supported[i]}
    /\ failBudget = 0
    /\ upc = NumFiles + 1
    /\ up = "returned"
    /\ pc = [i \in Files |-> IF supported[i] THEN "queued" ELSE "none"]
    /\ retries = [i \in Files |-> 0]
    /\ snap = [i \in Files |-> NoBatch]
    /\ idx = [i \in Files |-> 0]
    /\ tmp = supported
    /\ batch = create_batch(Supported(supported))
    /\ storage = {}
    /\ chunks = {}
    /\ bm25 = [p \in Procs |-> NoRetriever]
    /\ delPc = "idle"
    /\ delDoc = 0
    /\ delIds = {}
    /\ deleted = {}
    /\ incs = [i \in Files |-> 0]
    /\ exc = [i \in Files |-> << >>]
    /\ fresh = FALSE

InitPair ==
    /\ Uploaded
    /\ ApiIdle
    /\ AddIdle
    /\ CacheIdle
    /\ HandlersIdle
    /\ preRefresh = NoRetriever

NextPair ==
    \E t \in Files :
        ProgressGet(t) \/ ProgressSet(t) \/ Insert(t) \/ Refresh(t)
           \/ Persist(t) \/ Finally(t)

SpecPair == InitPair /\ [][NextPair]_vars

\* one upload of at most one task, with every exception text the pipeline
\* can raise
InitError == InitWith(OneTask, 0..MaxErrors, {{}})

NextError ==
    \/ UploadFile
    \/ UploadFinish
    \/ \E t \in Files :
          ProgressGet(t) \/ ProgressSet(t) \/ FailAny(t) \/ Insert(t)
             \/ Refresh(t) \/ Persist(t) \/ Finally(t)

SpecError == InitError /\ [][NextError]_vars

\* ingestion of one task into a store that may hold earlier documents,
\* together with queries and deletions on the API
InitIndex == InitWith(OneTask, 0..MaxIndexFailures, SUBSET PriorDocs)

NextIndex ==
    \/ UploadFile
    \/ UploadFinish
    \/ \E t \in Files : Worker(t)
    \/ Query
    \/ \E d \in list_documents : DeleteGet(d)
    \/ DeleteDel

SpecIndex == InitIndex /\ [][NextIndex]_vars

\* duplicate checks of any request list against any store content
\* nothing uploaded: no task, an empty store
NoUpload == {[i \in Files |-> FALSE]}

\* queries, deletions and index refreshes in the API process, on a store
\* that holds the documents of earlier uploads
InitRefresh == InitWith(NoUpload, {0}, SUBSET StoredDocs)

NextRefresh ==
    \/ Query
    \/ \E d \in StoredDocs : DeleteGet(d)
    \/ DeleteDel
    \/ RefreshApi

SpecRefresh == InitRefresh /\ [][NextRefresh]_vars

InitDup ==
    /\ IngestInit(NoUpload, {0}, {{}})
    /\ metadatas \in SeqUpTo([document_id : StoredDocs,
                               file_hash : Hashes \cup {NoHash}], MaxStored)
    /\ file_checks \in SeqUpTo([filename : Names, hash : Hashes], MaxChecks)
    /\ result = << >>
    /\ dupPc = "idle"
    /\ ChatIdle

NextDup == CheckDuplicates \/ CheckAgain

SpecDup == InitDup /\ [][NextDup]_vars

\* streaming queries of sessions that are each temporary or not
InitStream ==
    /\ IngestInit(NoUpload, {0}, {{}})
    /\ DupIdle
    /\ metadata = [s \in Sessions |-> NoMetadata]
    /\ is_temporary \in [Sessions -> BOOLEAN]
    /\ queried = {}
    /\ now = 0
    /\ listed = {}
    /\ spc = "idle"
    /\ events = << >>
    /\ source_nodes = << >>
    /\ sources = << >>

NextStream ==
    \/ \E s \in Sessions : QueryStream(s)
    \/ StreamStart
    \/ StreamToken
    \/ StreamSources
    \/ StreamDone
    \/ StreamError

SpecStream == InitStream /\ [][NextStream]_vars

\* one streamed answer for every list of source nodes the retriever can return
InitSources ==
    /\ IngestInit(NoUpload, {0}, {{}})
    /\ DupIdle
    /\ metadata = [s \in Sessions |-> NoMetadata]
    /\ is_temporary = [s \in Sessions |-> FALSE]
    /\ queried = {}
    /\ now = 0
    /\ listed = {}
    /\ spc = "idle"
    /\ events = << >>
    /\ source_nodes \in {SourceNodes(ids) : ids \in SeqUpTo(DocIds, MaxNodes)}
    /\ sources = << >>

SpecSources == InitSources /\ [][NextStream]_vars

\* the same with non-streaming queries, touches and listings over time
NextChat ==
    \/ NextStream
    \/ \E s \in Sessions : QueryPost(s)
    \/ \E s \in Sessions : Touch(s)
    \/ List
    \/ Tick

SpecChat == InitStream /\ [][NextChat]_vars

\* one refresh and MaxQueries queries in threads of the API process, over any
\* store and any retriever cached from an earlier store
PriorCaches ==
    {[p \in Procs |-> IF p = API THEN initialize_bm25_retriever(PriorStore(D))
                                 ELSE NoRetriever] : D \in SUBSET StoredDocs}

InitCache ==
    /\ IngestInitCached(NoUpload, {0}, SUBSET StoredDocs, PriorCaches)
    /\ ApiIdle

NextCache ==
    \/ RefreshNodes
    \/ RefreshInit
    \/ RefreshAssign
    \/ \E q \in Queries : QueryRead(q)
    \/ \E q \in Queries : QueryNodes(q)
    \/ \E q \in Queries : QueryInit(q)

SpecCache == InitCache /\ [][NextCache]_vars

\* MaxHandlers metadata calls in flight on sessions that queries created
InitSessions ==
    /\ IngestInit(NoUpload, {0}, {{}})
    /\ ApiIdle

NextSessions ==
    \/ \E s \in Sessions : QueryPost(s)
    \/ \E h \in Handlers, call \in Calls : SessionGet(h, call)
    \/ \E h \in Handlers : SessionSet(h)

SpecSessions == InitSessions /\ [][NextSessions]_vars

\* one call of add_documents with any number of nodes and any outcome of
\* every insert
InitAdd == InitWith(NoUpload, {0}, {{}})

NextAdd ==
    \/ \E n \in 0..MaxChunks : AddStart(n)
    \/ InsertAttempt
    \/ AddCallback

SpecAdd == InitAdd /\ [][NextAdd]_vars

\* the upload request alone, with any mix of supported and rejected files and
\* with saves that raise; the workers have not yet picked up a task
InitUpload == InitWith([Files -> BOOLEAN], 0..MaxUploadErrors, {{}})

NextUpload ==
    \/ UploadFile
    \/ UploadRaise
    \/ UploadFinish
    \/ Expire

SpecUpload == InitUpload /\ [][NextUpload]_vars

\* ------------------------------------------------------------- properties
Terminal == {"completed", "error"}
Finished == {"success", "failed"}

RECURSIVE SumOver(_, _)
SumOver(f, S) ==
    IF S = {} THEN 0
    ELSE LET x == CHOOSE y \in S : TRUE IN f[x] + SumOver(f, S \ {x})

\* C1: in every state of the batch record, completed <= total, also when a
\* retried task writes a terminal status on more than one attempt.
C1_CompletedAtMostTotal ==
    get_batch_progress.exists =>
        get_batch_progress.completed <= get_batch_progress.total

\* C2: once the stored status of a task is completed or error, no later
\* write puts it back to processing or pending.
C2_NoRegressionFromTerminal ==
    [][\A t \in Files :
          (Found(batch, t) /\ Found(batch', t)
             /\ batch.tasks[t].status \in Terminal)
          => batch'.tasks[t].status \notin {"pending", "processing"}]_vars

\* C3: concurrent writers lose no update: after k increments on existing
\* tasks have returned, batch.completed_chunks = k and every task's
\* completed_chunks is the number of increments issued for it.
C3_NoLostIncrement ==
    batch.exists =>
        /\ batch.completed_chunks = SumOver(incs, Files)
        /\ \A t \in DOMAIN batch.tasks :
              batch.tasks[t].completed_chunks = incs[t]

\* C4: once /upload has returned the batch id, eventually the batch record
\* has completed = total or the key has expired.
C4_EventuallyCompleteOrExpired ==
    (up = "returned") ~> (~batch.exists \/ batch.completed = batch.total)

\* C4 witness: the task finished before create_batch ran, so all its progress
\* writes were dropped and only the expiry of the key can settle the batch.
C4_Witness ==
    /\ up = "returned"
    /\ batch.exists
    /\ batch.completed = 0
    /\ \E t \in Files : pc[t] = "success"

\* C5: while the key exists, batch.completed as read by status polls never
\* decreases.
C5_CompletedNeverDecreases ==
    [][(batch.exists /\ batch'.exists)
          => batch'.completed >= batch.completed]_vars

\* C6: the temp file is kept while a further attempt is to come and is gone
\* once the task has run its last attempt, successful or not.
C6_TempFileDeletedAfterLastAttempt ==
    \A t \in Files :
        /\ pc[t] \in Finished => ~tmp[t]
        /\ pc[t] \notin Finished \cup {"none"} => tmp[t]

\* C7: after a successful ingestion task, the sparse index that later
\* queries of the API process consult contains the chunks of that task.
C7_IndexHasIngestedChunks ==
    \A t \in Files :
        pc[t] = "success" =>
            \A c \in chunks :
                c.document_id = DocId(t, retries[t]) =>
                    c \in create_hybrid_retriever(bm25[API], chunks).nodes

\* C8: after DELETE /documents/{id} returned, the cached sparse index that
\* later queries use holds no chunk of the deleted document.
C8_IndexDropsDeletedDocument ==
    \A d \in deleted :
        \A n \in bm25[API].nodes : n.document_id # d

\* C9: when DELETE /documents/{id} returns, no chunk of the document is left
\* in the vector store, its directory under the storage root is gone, and
\* the chunks of every other document are unchanged.
C9_DeleteRemovesChunksAndOriginal ==
    [][(delPc = "got" /\ delPc' = "idle") =>
          /\ \A c \in chunks' : c.document_id # delDoc
          /\ delDoc \notin storage'
          /\ {c \in chunks' : c.document_id # delDoc}
                = {c \in chunks : c.document_id # delDoc}]_vars

\* C12: a progress write of one task (status, total_chunks, chunk
\* increment, error) leaves the stored record of every other task of the
\* batch unchanged, whatever the interleaving of the workers.
C12_WriteLeavesOtherTasksUnchanged ==
    [][\A t \in Files :
          (pc[t] \in SetPcs /\ pc'[t] # pc[t]) =>
              \A u \in Files \ {t} :
                  (Found(batch, u) /\ Found(batch', u)) =>
                      batch'.tasks[u] = batch.tasks[u]]_vars

\* the sum of completed_chunks over the task records of a batch record
TaskCompletedChunks(bd) ==
    SumOver([t \in DOMAIN bd.tasks |-> bd.tasks[t].completed_chunks],
            DOMAIN bd.tasks)

\* C13: in every state of the batch record a status poll can read,
\* batch.completed_chunks is the sum of completed_chunks over its tasks,
\* whatever the interleaving of the writers.
C13_CompletedChunksIsTaskSum ==
    get_batch_progress.exists =>
        get_batch_progress.completed_chunks
            = TaskCompletedChunks(get_batch_progress)

\* C13 witness: two workers raced and an increment was lost, and the stored
\* record still carries chunk counts of both tasks.
C13_Witness ==
    /\ batch.exists
    /\ batch.completed_chunks < SumOver(incs, Files)
    /\ \A t \in Files : Found(batch, t) /\ batch.tasks[t].completed_chunks > 0

\* the sum of total_chunks over the task records of a batch record
TaskTotalChunks(bd) ==
    SumOver([t \in DOMAIN bd.tasks |-> bd.tasks[t].total_chunks],
            DOMAIN bd.tasks)

\* C14: batch.total_chunks is the sum of total_chunks over the tasks of the
\* batch after any sequence of set_task_total_chunks calls, also when a
\* retried attempt calls it again for the same task.
C14_TotalChunksIsTaskSum ==
    batch.exists => batch.total_chunks = TaskTotalChunks(batch)

\* C15: for every entry of the request, with hash h, the answer for that
\* file has exists = true iff some stored chunk has file_hash = h, and then
\* the reported document_id is that of a stored chunk with that hash; also
\* when two entries share a filename and differ in hash.
C15_ExistsIffHashStored ==
    dupPc = "answered" =>
        \A i \in DOMAIN file_checks :
            LET fc == file_checks[i]
                holders == {j \in DOMAIN metadatas :
                               metadatas[j].file_hash = fc.hash}
            IN /\ result[fc.filename].exists <=> holders # {}
               /\ result[fc.filename].exists =>
                     \E j \in holders :
                         metadatas[j].document_id
                             = result[fc.filename].document_id

\* C16: no error string the worker writes to the progress store for a task
\* (data.error, data.message) contains the temp file path of the task,
\* whatever exception was raised.
C16_ErrorStringsHidePath ==
    \A t \in Files :
        Found(batch, t) =>
            /\ ~Contains(batch.tasks[t].data.error, file_path(t))
            /\ ~Contains(batch.tasks[t].data.message, file_path(t))

\* C16 witness: an exception whose text carried the path was written as an
\* error string that names the uploaded file instead.
C16_Witness ==
    \E t \in Files :
        /\ Found(batch, t)
        /\ batch.tasks[t].status = "error"
        /\ Contains(exc[t], file_path(t))
        /\ Contains(batch.tasks[t].data.error, filename(t))
        /\ Contains(batch.tasks[t].data.message, filename(t))

AfterTokens(ev) ==
    LET k == CHOOSE n \in 0..Len(ev) :
                /\ \A i \in 1..n : ev[i] = "token"
                /\ n < Len(ev) => ev[n + 1] # "token"
    IN SubSeq(ev, k + 1, Len(ev))

\* C18: every event stream of query_rag_stream is zero or more token
\* events followed by either one sources and then one done event, or one
\* error event: a finished stream ends with exactly one of done / error,
\* and nothing follows an error.
C18_StreamShape ==
    /\ AfterTokens(events) \in
          {<< >>, <<"sources">>, <<"sources", "done">>, <<"error">>}
    /\ spc = "closed" =>
          AfterTokens(events) \in {<<"sources", "done">>, <<"error">>}

\* C18 witness: the stream failed after a token had been sent.
C18_Witness ==
    /\ spc = "closed"
    /\ Len(events) >= 2
    /\ events[1] = "token"
    /\ events[Len(events)] = "error"

\* C19: nothing about a session whose queries carry is_temporary = true is
\* written to the keyed store, in every sequence of query, touch and list
\* operations.
C19_TemporaryNeverPersisted ==
    \A s \in queried : is_temporary[s] => ~metadata[s].exists

\* C20: with no chunk in the vector store, initialize_bm25_retriever
\* returns None, the cached retriever is None once refresh_bm25_retriever
\* has run (also after the last document was deleted), and
\* create_hybrid_retriever then returns None.
C20_EmptyStoreNoSparseRetriever ==
    /\ initialize_bm25_retriever({}) = NoRetriever
    /\ (fresh /\ chunks = {}) =>
          /\ bm25[API] = NoRetriever
          /\ create_hybrid_retriever(bm25[API], chunks) = NoRetriever

\* C20 witness: the last document was deleted and the index refreshed.
C20_Witness ==
    /\ deleted # {}
    /\ chunks = {}
    /\ fresh
    /\ ~bm25[API].built

\* C21: /upload enqueues a task for a file only if its extension is supported;
\* the batch record it creates has exactly the enqueued tasks (total = their
\* number, each pending, completed = 0); when no task was enqueued it answers
\* 400 and creates no batch record.
Enqueued == {t \in Files : pc[t] # "none"}

C21_BatchHasExactlyEnqueuedTasks ==
    /\ [](\A t \in Enqueued : supported[t])
    /\ [][(up = "loop" /\ up' # "loop") =>
            IF Enqueued = {}
            THEN up' = "rejected" /\ batch' = batch /\ ~batch.exists
            ELSE /\ up' = "returned"
                 /\ batch'.exists
                 /\ DOMAIN batch'.tasks = Enqueued
                 /\ batch'.total = Cardinality(Enqueued)
                 /\ batch'.completed = 0
                 /\ \A t \in Enqueued : batch'.tasks[t].status = "pending"]_vars

C21_Witness ==
    /\ up = "returned"
    /\ batch.exists
    /\ Cardinality(DOMAIN batch.tasks) = 1
    /\ \E i \in Files : pc[i] = "none"

\* C22: every chunk in the vector store has
\* chunk_id = "{document_id}-chunk-{chunk_index}", and no two chunks of the
\* store share the pair (document_id, chunk_index), whatever tasks and retried
\* attempts have run.
C22_ChunkIdsWellFormedAndUnique ==
    /\ \A c \in chunks :
          c.chunk_id = <<ToString(c.document_id), "-chunk-", ToString(c.chunk_index)>>
    /\ \A c1, c2 \in chunks :
          (c1.document_id = c2.document_id /\ c1.chunk_index = c2.chunk_index)
             => c1 = c2

\* chunks of two attempts of one task are in the store, the later attempt
\* having inserted more than one chunk
C22_Witness ==
    \E c1, c2, c3 \in chunks :
        /\ c1.document_id # c2.document_id
        /\ c1.chunk_index = c2.chunk_index
        /\ c3.document_id = c2.document_id
        /\ c3.chunk_index # c2.chunk_index

\* C23: _extract_sources returns the input nodes in their order, keeping every
\* node without a document_id and, for each non-empty document_id, only its
\* first node; no two returned entries share a non-empty document_id.
FirstOfDoc ==
    {i \in 1..Len(source_nodes) :
        \/ source_nodes[i].document_id = NoDocId
        \/ \A j \in 1..(i - 1) :
              source_nodes[j].document_id # source_nodes[i].document_id}

C23_SourcesAreFirstNodePerDocument ==
    spc = "sourced" =>
        /\ Len(sources) = Cardinality(FirstOfDoc)
        /\ {sources[k].full_text : k \in 1..Len(sources)} = FirstOfDoc
        /\ \A k \in 1..Len(sources) :
              sources[k].document_id = source_nodes[sources[k].full_text].document_id
        /\ \A k, l \in 1..Len(sources) :
              /\ k < l => sources[k].full_text < sources[l].full_text
              /\ (k # l /\ sources[k].document_id # NoDocId)
                    => sources[k].document_id # sources[l].document_id

\* a later node of a document was dropped and a node without a document_id
\* was kept
C23_Witness ==
    /\ spc = "sourced"
    /\ Len(sources) < Len(source_nodes)
    /\ \E k, l \in 1..Len(sources) :
          sources[k].document_id = NoDocId /\ sources[l].document_id # NoDocId

\* C24 as stated: an error that is not connection-class is raised after
\* exactly one attempt at the chunk.
C24_OtherErrorAfterOneAttempt ==
    (apc = "raised" /\ total_nodes > 0 /\ ~is_connection_error(last_error))
        => tries = 1

\* one step seen from the retry loop: a further attempt follows a
\* connection-class error only, a failed attempt that is the third or met
\* another error leaves the function, and nothing is tried after the end
C24_Step ==
    /\ (tries' = tries + 1 /\ tries > 0) =>
          (\E term \in ConnectionTerms : Contains(lower(last_error), <<term>>))
    /\ (tries' = tries + 1 /\ inserted' = inserted) =>
          ((~is_connection_error(last_error') \/ tries' = 3) => apc' = "raised")
    /\ (apc \in {"callback", "returned", "raised"} /\ node_i' = node_i) =>
          tries' = tries

\* C24: for each chunk the insert is attempted at most 3 times; it is attempted
\* again only after a connection-class error (eof, connection, timeout,
\* refused, unavailable in the lowered message) of the first or second
\* attempt, after sleeping 2.0s and then 4.0s; an error of another class is
\* raised by the attempt that met it, whichever attempt that is; the third
\* connection-class failure is raised; after a successful insert the chunk is
\* not inserted again.
C24_InsertRetriedOnConnectionErrorsOnly ==
    /\ [](/\ tries <= 3
          /\ slept = SubSeq(<<2, 4>>, 1, Len(slept))
          /\ (apc = "insert" => tries = Len(slept))
          /\ ((apc = "raised" /\ total_nodes > 0) =>
                 /\ tries = Len(slept) + 1
                 /\ (is_connection_error(last_error) => tries = 3))
          /\ \A k, l \in 1..Len(inserted) : k # l => inserted[k] # inserted[l])
    /\ [][C24_Step]_vars

\* a connection error, then an error of another class at the second attempt
C24_Witness ==
    /\ apc = "raised"
    /\ tries = 2
    /\ slept = <<2>>
    /\ ~is_connection_error(last_error)

\* C26: add_documents inserts the chunks one at a time in order and calls
\* progress_callback(i, n) exactly once for each i = 1..n, each call after the
\* insert of chunk i succeeded; when the insert of chunk j fails the callback
\* has been called exactly j - 1 times and no later chunk is inserted.
C26_CallbackOncePerInsertedChunk ==
    /\ \A k \in 1..Len(inserted) : inserted[k] = k
    /\ \A k \in 1..Len(callbacks) : callbacks[k] = <<k, total_nodes>>
    /\ Len(callbacks) <= Len(inserted)
    /\ Len(inserted) <= Len(callbacks) + 1
    /\ (apc = "callback" <=> Len(inserted) = Len(callbacks) + 1)
    /\ (apc = "returned" => Len(callbacks) = total_nodes)
    /\ (apc = "raised" /\ total_nodes > 0 =>
           /\ Len(callbacks) = node_i - 1
           /\ Len(inserted) = node_i - 1)

\* the insert of the second chunk failed after the first was reported
C26_Witness ==
    /\ apc = "raised"
    /\ node_i = 2
    /\ callbacks = <<<<1, total_nodes>>>>
    /\ inserted = <<1>>

\* C25: the sparse retriever a query gets from the cache while a refresh or
\* another query's lazy initialisation runs is the complete retriever cached
\* before or the complete retriever built from the store, never anything else.
C25_QuerySeesOldOrNewIndex ==
    \A q \in Queries :
        qPc[q] # "idle" =>
            qRetriever[q] \in {preRefresh, initialize_bm25_retriever(chunks)}

\* while the refresh is between reading the store and binding the global, one
\* query holds the retriever cached before and the store has other contents
C25_Witness ==
    /\ rfPc \in {"built", "returned"}
    /\ preRefresh.built
    /\ chunks # {}
    /\ preRefresh.nodes # chunks
    /\ \E q \in Queries : qPc[q] = "done" /\ qRetriever[q] = preRefresh

\* C27: once a task has run its last attempt, the store holds chunks of at
\* most one of the document ids generated for it, and of none when the task
\* ended in error: chunks of a failed attempt do not stay.
DocIdsOf(t) == {DocId(t, r) : r \in 0..max_retries}

C27_NoChunksOfFailedAttempts ==
    \A t \in Files :
        pc[t] \in Finished =>
            LET kept == {c.document_id : c \in chunks} \cap DocIdsOf(t)
            IN  /\ Cardinality(kept) <= 1
                /\ pc[t] = "failed" => kept = {}

\* C28: for every task, once its total_chunks has been set, completed_chunks
\* is at most total_chunks in every later state of the batch record, across
\* all attempts of the task.
C28_TaskCompletedChunksAtMostTotal ==
    batch.exists =>
        \A t \in DOMAIN batch.tasks :
            batch.tasks[t].total_chunks > 0 =>
                batch.tasks[t].completed_chunks <= batch.tasks[t].total_chunks

\* C29: a DELETE of a document issued while an ingestion task is still
\* inserting chunks of that document leaves no chunk of it in the store once
\* both the deletion and the task have finished.
C29_DeleteDuringIngestionLeavesNoChunk ==
    (delPc = "idle" /\ \A t \in Files : pc[t] \in Finished \cup {"none"}) =>
        \A d \in deleted : \A c \in chunks : c.document_id # d

\* C30: concurrent metadata updates of one session lose no update: after
\* archive_session and a touch_session or update_session_title on the same
\* existing session have both returned, is_archived is true and the new
\* title is stored.
C30_NoLostSessionUpdate ==
    \A h1, h2 \in Handlers :
        ( /\ hpc[h1] = "returned" /\ hpc[h2] = "returned"
          /\ hop[h1].op = "archive"
          /\ hop[h2].op \in {"touch", "title"}
          /\ hop[h1].session_id = hop[h2].session_id
          /\ hread[h1].exists /\ hread[h2].exists )
        => /\ metadata[hop[h1].session_id].is_archived
           /\ hop[h2].op = "title" =>
                 metadata[hop[h1].session_id].title = hop[h2].title

====
